---- MODULE Spec2Model ----
(***************************************************************************)
(* The MTCNN cascade controller of FaceExtractor (MTCNN.forward and        *)
(* MTCNN.run_first_stage) as a state machine, with the helpers it calls    *)
(* (nms, calibrate_box, convert_to_square, get_image_boxes,                *)
(* _generate_bboxes).  Python floats are modelled by exact arithmetic:     *)
(* probabilities and overlap thresholds in tenths, scales as fractions of  *)
(* base-1000 naturals, box coordinates as integers.                        *)
(***************************************************************************)
EXTENDS Integers, Sequences, FiniteSets, TLC

(* ------------------------------------------------------------------ *)
(* Bounds of the model                                                 *)
(* ------------------------------------------------------------------ *)

\* largest image side drawn for the scale pyramid runs
MaxSide == 40
\* largest min_face_size drawn for the scale pyramid runs
MaxFaceSize == 14
\* NMS runs: the box arrays hold up to MaxBoxes boxes
MaxBoxes == 4

(* ------------------------------------------------------------------ *)
(* Program constants                                                   *)
(* ------------------------------------------------------------------ *)

\* min_detection_size = 12
MinDetectionSize == 12
\* factor = 0.707, as the fraction FactorNum / FactorDen
FactorNum == 707
FactorDen == 1000
\* receptive field of the proposal network: cell size 12, stride 2
CellSize == 12
Stride == 2
\* MTCNN.__init__ defaults, in tenths: thresholds=(0.6, 0.7, 0.8),
\* nms_thresholds=(0.7, 0.7, 0.7); run_first_stage's overlap_threshold=0.5
thresholds == <<6, 7, 8>>
nms_thresholds == <<7, 7, 7>>
FirstStageNmsThreshold == 5

(* ------------------------------------------------------------------ *)
(* Exact arithmetic on naturals of any size: little-endian sequences   *)
(* of base-1000 limbs without leading zero limbs (zero is << >>).      *)
(* They carry min_length and the scales, whose numerators and          *)
(* denominators (707^k, 1000^k) outgrow machine integers.              *)
(* ------------------------------------------------------------------ *)

Base == FactorDen

RECURSIVE BigFromInt(_)
BigFromInt(n) == IF n = 0 THEN << >> ELSE <<n % Base>> \o BigFromInt(n \div Base)

RECURSIVE BigMulCarry(_, _, _)
BigMulCarry(b, c, carry) ==
    IF b = << >> THEN BigFromInt(carry)
    ELSE LET t == Head(b) * c + carry
         IN  <<t % Base>> \o BigMulCarry(Tail(b), c, t \div Base)

\* b * c for a small natural c
BigMulSmall(b, c) == IF c = 0 THEN << >> ELSE BigMulCarry(b, c, 0)

\* b * 1000
BigShift(b) == IF b = << >> THEN << >> ELSE <<0>> \o b

RECURSIVE BigLessSameLen(_, _, _)
BigLessSameLen(a, b, i) ==
    IF i = 0 THEN FALSE
    ELSE IF a[i] # b[i] THEN a[i] < b[i]
    ELSE BigLessSameLen(a, b, i - 1)

\* a < b
BigLess(a, b) ==
    IF Len(a) # Len(b) THEN Len(a) < Len(b) ELSE BigLessSameLen(a, b, Len(a))

RECURSIVE BigPow(_, _)
BigPow(c, k) == IF k = 0 THEN <<1>> ELSE BigMulSmall(BigPow(c, k - 1), c)

RECURSIVE BigShiftN(_, _)
BigShiftN(b, k) == IF k = 0 THEN b ELSE BigShift(BigShiftN(b, k - 1))

RECURSIVE BigAdd(_, _, _)
BigAdd(a, b, carry) ==
    IF a = << >> /\ b = << >> THEN BigFromInt(carry)
    ELSE LET x == IF a = << >> THEN 0 ELSE Head(a)
             y == IF b = << >> THEN 0 ELSE Head(b)
             t == x + y + carry
         IN  <<t % Base>> \o BigAdd(IF a = << >> THEN a ELSE Tail(a),
                                    IF b = << >> THEN b ELSE Tail(b),
                                    t \div Base)

RECURSIVE BigMul(_, _)
BigMul(a, b) ==
    IF a = << >> \/ b = << >> THEN << >>
    ELSE BigAdd(BigMulSmall(b, Head(a)), BigShift(BigMul(Tail(a), b)), 0)

\* fractions num/den of such naturals, den > 0
Frac(n, d) == [num |-> n, den |-> d]
FracLess(p, q) == BigLess(BigMul(p.num, q.den), BigMul(q.num, p.den))
FracEq(p, q) == BigMul(p.num, q.den) = BigMul(q.num, p.den)
FracOfInt(n) == Frac(BigFromInt(n), <<1>>)
FracMul(p, q) == Frac(BigMul(p.num, q.num), BigMul(p.den, q.den))

Min(a, b) == IF a <= b THEN a ELSE b
Max(a, b) == IF a >= b THEN a ELSE b

(* ------------------------------------------------------------------ *)
(* box_utils.nms: greedy non-maximum suppression                       *)
(* A box is a record with fields x1, y1, x2, y2, score (a row of the   *)
(* numpy array); an overlap threshold is given in tenths.              *)
(* ------------------------------------------------------------------ *)

\* area = (x2 - x1 + 1)*(y2 - y1 + 1), the inclusive pixel convention
Area(b) == (b.x2 - b.x1 + 1) * (b.y2 - b.y1 + 1)

\* inter = max(0, ix2 - ix1 + 1) * max(0, iy2 - iy1 + 1)
Inter(a, b) ==
    Max(0, Min(a.x2, b.x2) - Max(a.x1, b.x1) + 1)
  * Max(0, Min(a.y2, b.y2) - Max(a.y1, b.y1) + 1)

\* the denominator of the overlap of the kept box a with another box b
OverlapDenom(a, b, mode) ==
    IF mode = "min" THEN Min(Area(a), Area(b))
    ELSE Area(a) + Area(b) - Inter(a, b)

\* overlap > threshold (strictly), threshold t in tenths.  A zero or
\* negative denominator only arises with inter = 0 (nan or -0 in numpy),
\* which never exceeds a threshold.
OverlapExceeds(a, b, t, mode) ==
    /\ OverlapDenom(a, b, mode) > 0
    /\ 10 * Inter(a, b) > t * OverlapDenom(a, b, mode)

\* ids sorted so far, plus index i: behind every id whose score is <= score[i]
RECURSIVE InsertByScore(_, _, _)
InsertByScore(boxes, ids, i) ==
    IF ids = << >> THEN <<i>>
    ELSE IF boxes[ids[Len(ids)]].score <= boxes[i].score THEN Append(ids, i)
    ELSE Append(InsertByScore(boxes, SubSeq(ids, 1, Len(ids) - 1), i), ids[Len(ids)])

\* a stable argsort of the scores, ascending
RECURSIVE ArgsortUpTo(_, _)
ArgsortUpTo(boxes, n) ==
    IF n = 0 THEN << >> ELSE InsertByScore(boxes, ArgsortUpTo(boxes, n - 1), n)

Argsort(boxes) == ArgsortUpTo(boxes, Len(boxes))

\* take the last id (the highest score left), drop every other id whose
\* overlap with it exceeds the threshold, repeat
RECURSIVE NmsLoop(_, _, _, _)
NmsLoop(boxes, ids, t, mode) ==
    IF ids = << >> THEN << >>
    ELSE LET i    == ids[Len(ids)]
             rest == SubSeq(ids, 1, Len(ids) - 1)
             left == SelectSeq(rest, LAMBDA j : ~OverlapExceeds(boxes[i], boxes[j], t, mode))
         IN  <<i>> \o NmsLoop(boxes, left, t, mode)

\* the variant whose overlap is inter / area(other box): not symmetric
NmsAsymExceeds(a, b, t) == Area(b) > 0 /\ 10 * Inter(a, b) > t * Area(b)

RECURSIVE NmsAsymLoop(_, _, _)
NmsAsymLoop(boxes, ids, t) ==
    IF ids = << >> THEN << >>
    ELSE LET i    == ids[Len(ids)]
             rest == SubSeq(ids, 1, Len(ids) - 1)
             left == SelectSeq(rest, LAMBDA j : ~NmsAsymExceeds(boxes[i], boxes[j], t))
         IN  <<i>> \o NmsAsymLoop(boxes, left, t)

nms_asymmetric(boxes, t, mode) == NmsAsymLoop(boxes, Argsort(boxes), t)

\* the variant that drops the boxes whose overlap is below the threshold
RECURSIVE NmsInvertedLoop(_, _, _, _)
NmsInvertedLoop(boxes, ids, t, mode) ==
    IF ids = << >> THEN << >>
    ELSE LET i    == ids[Len(ids)]
             rest == SubSeq(ids, 1, Len(ids) - 1)
             left == SelectSeq(rest, LAMBDA j :
                        ~(/\ OverlapDenom(boxes[i], boxes[j], mode) > 0
                          /\ 10 * Inter(boxes[i], boxes[j])
                                < t * OverlapDenom(boxes[i], boxes[j], mode)))
         IN  <<i>> \o NmsInvertedLoop(boxes, left, t, mode)

nms_inverted(boxes, t, mode) == NmsInvertedLoop(boxes, Argsort(boxes), t, mode)

\* nms(boxes, overlap_threshold, mode): the picked indices, in picking order
nms(boxes, t, mode) == NmsLoop(boxes, Argsort(boxes), t, mode)

\* numpy's array[keep]: the rows at the given indices, in that order
Rows(array, keep) == [i \in 1..Len(keep) |-> array[keep[i]]]

(* ------------------------------------------------------------------ *)
(* box_utils.calibrate_box, convert_to_square, get_image_boxes and     *)
(* first_stage._generate_bboxes                                        *)
(* ------------------------------------------------------------------ *)

\* one box moved by its offsets d = <<dx1, dy1, dx2, dy2>>, each scaled by
\* the box's width or height; the score (and every other column) is kept
CalibrateOne(b, d) ==
    LET w == b.x2 - b.x1 + 1
        h == b.y2 - b.y1 + 1
    IN  [b EXCEPT !.x1 = b.x1 + d[1] * w, !.y1 = b.y1 + d[2] * h,
                  !.x2 = b.x2 + d[3] * w, !.y2 = b.y2 + d[4] * h]

\* calibrate_box(bboxes, offsets): row i moved by offsets row i
calibrate_box(bboxes, offs) ==
    [i \in 1..Len(bboxes) |-> CalibrateOne(bboxes[i], offs[i].d)]

\* numpy's round of n2/2: to the nearest integer, a half to the even one
RoundHalf(n2) ==
    IF n2 % 2 = 0 THEN n2 \div 2
    ELSE IF ((n2 - 1) \div 2) % 2 = 0 THEN (n2 - 1) \div 2 ELSE (n2 + 1) \div 2

\* convert_to_square followed by np.round of the four corners: the side is
\* max(w, h), the box is re-centred (x1 + w/2 - side/2), x2 = x1 + side - 1
SquareOne(b) ==
    LET w    == b.x2 - b.x1 + 1
        h    == b.y2 - b.y1 + 1
        side == Max(w, h)
        x1d  == 2 * b.x1 + w - side
        y1d  == 2 * b.y1 + h - side
    IN  [b EXCEPT !.x1 = RoundHalf(x1d), !.y1 = RoundHalf(y1d),
                  !.x2 = RoundHalf(x1d + 2 * side - 2),
                  !.y2 = RoundHalf(y1d + 2 * side - 2)]

convert_to_square(bboxes) == [i \in 1..Len(bboxes) |-> SquareOne(bboxes[i])]

\* the box clamped to an image of img_w x img_h pixels has a pixel left
HasCrop(b, img_w, img_h) ==
    /\ Min(b.x2, img_w - 1) - Max(b.x1, 0) + 1 > 0
    /\ Min(b.y2, img_h - 1) - Max(b.y1, 0) + 1 > 0

\* get_image_boxes: one crop per box, in order; a box with non-positive
\* width or height after clamping is skipped.  A crop is the image region
\* of box src (its pixels are not modelled).
RECURSIVE CropsFrom(_, _, _, _)
CropsFrom(bboxes, i, img_w, img_h) ==
    IF i > Len(bboxes) THEN << >>
    ELSE (IF HasCrop(bboxes[i], img_w, img_h) THEN <<[src |-> i]>> ELSE << >>)
         \o CropsFrom(bboxes, i + 1, img_w, img_h)

get_image_boxes(bboxes, img_w, img_h) == CropsFrom(bboxes, 1, img_w, img_h)

RECURSIVE BigToInt(_)
BigToInt(b) == IF b = << >> THEN 0 ELSE Head(b) + Base * BigToInt(Tail(b))

\* round(n / d) for naturals, a half to the even integer
RoundDiv(n, d) ==
    LET q == n \div d
        r == n % d
    IN  IF 2 * r < d THEN q
        ELSE IF 2 * r > d THEN q + 1
        ELSE IF q % 2 = 0 THEN q ELSE q + 1

\* round(a / scale), scale a fraction
RoundOverScale(a, scale) ==
    RoundDiv(a * BigToInt(scale.den), BigToInt(scale.num))

\* the grid cells of the proposal network's output map, in row-major order
GridCells == << <<0, 0>>, <<0, 1>> >>

\* _generate_bboxes(probs, offsets, scale, threshold): a row (box, score,
\* offsets) for every grid cell (i, j) whose probability exceeds the
\* threshold, in row-major order
RECURSIVE GenerateFrom(_, _, _, _)
GenerateFrom(out, c, scale, threshold) ==
    IF c > Len(GridCells) THEN << >>
    ELSE LET i == GridCells[c][1]
             j == GridCells[c][2]
             row == [x1 |-> RoundOverScale(j * Stride, scale),
                     y1 |-> RoundOverScale(i * Stride, scale),
                     x2 |-> RoundOverScale(j * Stride + CellSize - 1, scale),
                     y2 |-> RoundOverScale(i * Stride + CellSize - 1, scale),
                     score |-> out[c].prob, off |-> out[c].off,
                     id |-> 0, score_src |-> 0]
         IN  (IF out[c].prob > threshold THEN <<row>> ELSE << >>)
             \o GenerateFrom(out, c + 1, scale, threshold)

generate_bboxes(out, scale, threshold) == GenerateFrom(out, 1, scale, threshold)

(* ------------------------------------------------------------------ *)
(* State                                                               *)
(* ------------------------------------------------------------------ *)

VARIABLES
    pc,              \* the position of the run in MTCNN.forward
    input_shape,     \* the shape of the tensor the caller passed
    image_shape,     \* image_01's shape in forward (after the unsqueeze)
    min_face_size,   \* self.min_face_size
    width, height,   \* width, height = image_01.shape[2:]
    m,               \* m = min_detection_size / min_face_size
    min_length,      \* min_length, a fraction
    factor_count,
    scales,          \* the scale pyramid, a sequence of fractions
    bounding_boxes,  \* the candidate boxes (per scale while P-Net runs)
    img_boxes,       \* the crops passed to R-Net or O-Net
    offsets, probs, landmarks,   \* the network's output arrays
    keep,            \* the last index array computed
    result,          \* what forward returned
    net_calls,       \* how often each network was called
    hist,            \* stage 3: the boxes before and after calibrate_box
                     \* and the landmarks before the final NMS
    nms_boxes,       \* NMS runs: the scored boxes given to nms
    nms_picks,       \* NMS runs: nms's result per mode and threshold
    nms_repicks      \* NMS runs: nms's result on its own output

vars == <<pc, input_shape, image_shape, min_face_size, width, height, m, min_length,
          factor_count, scales, bounding_boxes, img_boxes, offsets, probs, landmarks,
          keep, result, net_calls, hist, nms_boxes, nms_picks, nms_repicks>>

pyramid_vars == <<m, min_length, factor_count, scales>>
stage_vars == <<bounding_boxes, img_boxes, offsets, probs, landmarks, keep, result,
                net_calls, hist>>
nms_vars == <<nms_boxes, nms_picks, nms_repicks>>

(* ------------------------------------------------------------------ *)
(* Inputs                                                              *)
(* ------------------------------------------------------------------ *)

\* largest batch size drawn
MaxBatch == 2
\* largest image side of the cascade runs: two scales at min_face_size 20
CascadeSide == 30
\* image sides of the cascade runs: empty, too small for a scale, one scale
ImageSides == {0, 16, 24, CascadeSide}
\* min_face_size=20.0, the default of MTCNN.__init__
DefaultMinFaceSize == 20
\* channels of an image tensor
Channels == 3

\* what a network may answer for one crop or grid cell: a face probability
\* at the stage's threshold (which does not pass it) or above it, in tenths
ProbChoices(stage) == {thresholds[stage], 9, 10}
\* box offsets: none, or a shift by twice the box's size up and to the left
OffsetChoices == {<<0, 0, 0, 0>>, <<-2, -2, -2, -2>>}
\* landmarks (5 x then 5 y), relative to the box
LandmarkChoices == {<<0, 1, 0, 1, 0, 0, 0, 1, 1, 0>>, <<1, 1, 0, 0, 1, 0, 1, 0, 1, 1>>}

NoFrac == Frac(<< >>, <<1>>)
NoHist == [pre |-> << >>, cal |-> << >>, lm |-> << >>]
NoCalls == [pnet |-> 0, rnet |-> 0, onet |-> 0]

InitRun ==
    /\ pc = "forward"
    /\ image_shape = input_shape
    /\ width = 0 /\ height = 0
    /\ m = NoFrac /\ min_length = NoFrac /\ factor_count = 0 /\ scales = << >>
    /\ bounding_boxes = << >> /\ img_boxes = << >>
    /\ offsets = << >> /\ probs = << >> /\ landmarks = << >>
    /\ keep = << >> /\ result = << >>
    /\ net_calls = NoCalls /\ hist = NoHist

\* a cascade run: a [C, H, W] image or a batch [B, C, H, W] of B images
Init ==
    /\ \E w \in ImageSides, h \in ImageSides :
          input_shape \in {<<Channels, w, h>>} \cup {<<b, Channels, w, h>> : b \in 0..MaxBatch}
    /\ min_face_size = DefaultMinFaceSize
    /\ InitRun
    /\ nms_boxes = << >> /\ nms_picks = << >> /\ nms_repicks = << >>

(* ------------------------------------------------------------------ *)
(* MTCNN.forward: entry and scale pyramid                              *)
(* ------------------------------------------------------------------ *)

\* if image_01.ndim == 3: image_01 = image_01.unsqueeze(0)
Unsqueezed(shape) == IF Len(shape) = 3 THEN <<1>> \o shape ELSE shape

\* the entry without its batch-size assertion
BatchAcceptedAlways(shape) == TRUE

\* assert image_01.size(0) == 1
BatchAccepted(shape) == shape[1] = 1

Forward ==
    /\ pc = "forward"
    /\ image_shape' = Unsqueezed(image_shape)
    /\ pc' = IF BatchAccepted(image_shape') THEN "scales" ELSE "AssertionError"
    /\ UNCHANGED <<input_shape, min_face_size, width, height, pyramid_vars, stage_vars, nms_vars>>

\* the factor 0.707
Factor == Frac(BigFromInt(FactorNum), BigFromInt(FactorDen))

\* width, height = image_01.shape[2:]; min_length = min(height, width);
\* m = min_detection_size/self.min_face_size; min_length *= m
BuildScales ==
    /\ pc = "scales"
    /\ width' = image_shape[3]
    /\ height' = image_shape[4]
    /\ m' = Frac(BigFromInt(MinDetectionSize), BigFromInt(min_face_size))
    /\ min_length' = FracMul(FracOfInt(Min(height', width')), m')
    /\ scales' = << >>
    /\ factor_count' = 0
    /\ pc' = "while"
    /\ UNCHANGED <<input_shape, image_shape, min_face_size, stage_vars, nms_vars>>

\* the loop test with >= for >
LoopTestInclusive(len) == ~FracLess(len, FracOfInt(MinDetectionSize))

\* while min_length > min_detection_size
LoopTest(len) == FracLess(FracOfInt(MinDetectionSize), len)

\* m*factor**factor_count
ScaleAt(mm, count) ==
    FracMul(mm, Frac(BigPow(FactorNum, count), BigPow(FactorDen, count)))

WhileScales ==
    /\ pc = "while"
    /\ IF LoopTest(min_length)
       THEN /\ scales' = Append(scales, ScaleAt(m, factor_count))
            /\ min_length' = FracMul(min_length, Factor)
            /\ factor_count' = factor_count + 1
            /\ pc' = pc
       ELSE /\ pc' = "first_stage"
            /\ UNCHANGED <<scales, min_length, factor_count>>
    /\ UNCHANGED <<input_shape, image_shape, min_face_size, width, height, m, stage_vars,
                   nms_vars>>

(* ------------------------------------------------------------------ *)
(* Stage 1: P-Net on every scale                                       *)
(* ------------------------------------------------------------------ *)

\* what P-Net may answer for one scaled image: a probability and the
\* offsets for every grid cell
PnetOutputs ==
    [1..Len(GridCells) -> [prob : ProbChoices(1), off : OffsetChoices]]

\* run_first_stage after the network call: the boxes over the threshold,
\* then nms at 0.5 within the scale; no box is None, modelled as << >>
run_first_stage(out, scale, threshold) ==
    LET boxes == generate_bboxes(out, scale, threshold)
    IN  IF Len(boxes) = 0 THEN << >>
        ELSE Rows(boxes, nms(boxes, FirstStageNmsThreshold, "union"))

\* for s in scales: boxes = self.run_first_stage(...); bounding_boxes.append(boxes)
RunFirstStage ==
    /\ pc = "first_stage"
    /\ Len(bounding_boxes) < Len(scales)
    /\ \E out \in PnetOutputs :
          bounding_boxes' =
              Append(bounding_boxes,
                     run_first_stage(out, scales[Len(bounding_boxes) + 1], thresholds[1]))
    /\ net_calls' = [net_calls EXCEPT !.pnet = @ + 1]
    /\ UNCHANGED <<pc, input_shape, image_shape, min_face_size, width, height, pyramid_vars,
                   img_boxes, offsets, probs, landmarks, keep, result, hist, nms_vars>>

RECURSIVE Concat(_)
Concat(arrays) == IF arrays = << >> THEN << >> ELSE Head(arrays) \o Concat(Tail(arrays))

\* bounding_boxes = [i for i in bounding_boxes if i is not None]
NotNone(arrays) == SelectSeq(arrays, LAMBDA a : a # << >>)

\* bounding_boxes = np.vstack(bounding_boxes): numpy raises ValueError for
\* an empty list of arrays
CollectBoxes ==
    /\ pc = "first_stage"
    /\ Len(bounding_boxes) = Len(scales)
    /\ IF NotNone(bounding_boxes) = << >>
       THEN /\ pc' = "ValueError"
            /\ UNCHANGED bounding_boxes
       ELSE /\ pc' = "stage1_nms"
            /\ bounding_boxes' = Concat(NotNone(bounding_boxes))
    /\ UNCHANGED <<input_shape, image_shape, min_face_size, width, height, pyramid_vars,
                   img_boxes, offsets, probs, landmarks, keep, result, net_calls, hist,
                   nms_vars>>

\* keep = nms(bounding_boxes[:, 0:5], self.nms_thresholds[0]);
\* bounding_boxes = bounding_boxes[keep]
Stage1Nms ==
    /\ pc = "stage1_nms"
    /\ keep' = nms(bounding_boxes, nms_thresholds[1], "union")
    /\ bounding_boxes' = Rows(bounding_boxes, keep')
    /\ pc' = "stage1_calibrate"
    /\ UNCHANGED <<input_shape, image_shape, min_face_size, width, height, pyramid_vars,
                   img_boxes, offsets, probs, landmarks, result, net_calls, hist, nms_vars>>

\* the offsets columns 5: of the stage-1 rows
OffsetColumns(rows) == [i \in 1..Len(rows) |-> [d |-> rows[i].off, src |-> 0]]

\* bounding_boxes = calibrate_box(bounding_boxes[:, 0:5], bounding_boxes[:, 5:]);
\* convert_to_square; np.round
Stage1Calibrate ==
    /\ pc = "stage1_calibrate"
    /\ bounding_boxes' =
          convert_to_square(calibrate_box(bounding_boxes, OffsetColumns(bounding_boxes)))
    /\ pc' = "stage2_net"
    /\ UNCHANGED <<input_shape, image_shape, min_face_size, width, height, pyramid_vars,
                   img_boxes, offsets, probs, landmarks, keep, result, net_calls, hist,
                   nms_vars>>

(* ------------------------------------------------------------------ *)
(* Stage 2: R-Net                                                      *)
(* ------------------------------------------------------------------ *)

\* each box labelled with its index in the array the crops are cut from
Numbered(bboxes) == [i \in 1..Len(bboxes) |-> [bboxes[i] EXCEPT !.id = i]]

\* the rows whose probability exceeds the threshold: np.where(probs[:, 1] > t)[0]
RECURSIVE WhereOver(_, _, _)
WhereOver(ps, t, i) ==
    IF i > Len(ps) THEN << >>
    ELSE (IF ps[i].p > t THEN <<i>> ELSE << >>) \o WhereOver(ps, t, i + 1)

\* bounding_boxes[:, 4] = probs[keep, 1]
WithScores(bboxes, ps) ==
    [i \in 1..Len(bboxes) |->
        [bboxes[i] EXCEPT !.score = ps[i].p, !.score_src = ps[i].src]]

\* img_boxes = get_image_boxes(bounding_boxes, image_pil, size=24);
\* output = self.rnet(img_boxes): offsets and probs, a row per crop.
\* The PIL image is shape[3] pixels wide and shape[2] high, which forward
\* names height and width (width, height = image_01.shape[2:]).
Stage2Net ==
    /\ pc = "stage2_net"
    /\ bounding_boxes' = Numbered(bounding_boxes)
    /\ img_boxes' = get_image_boxes(bounding_boxes, height, width)
    /\ \E out \in [1..Len(img_boxes') -> [prob : ProbChoices(2), off : OffsetChoices]] :
          /\ offsets' = [i \in 1..Len(img_boxes') |->
                            [d |-> out[i].off, src |-> img_boxes'[i].src]]
          /\ probs' = [i \in 1..Len(img_boxes') |->
                          [p |-> out[i].prob, src |-> img_boxes'[i].src]]
    /\ net_calls' = [net_calls EXCEPT !.rnet = @ + 1]
    /\ pc' = "stage2_filter"
    /\ UNCHANGED <<input_shape, image_shape, min_face_size, width, height, pyramid_vars,
                   landmarks, keep, result, hist, nms_vars>>

\* the offsets left as the network gave them
UnfilteredOffsets(offs, k) == offs

\* offsets = offsets[keep]
FilteredOffsets(offs, k) == Rows(offs, k)

\* keep = np.where(probs[:, 1] > self.thresholds[1])[0]; bounding_boxes =
\* bounding_boxes[keep]; bounding_boxes[:, 4] = probs[keep, 1]; offsets = offsets[keep]
Stage2Filter ==
    /\ pc = "stage2_filter"
    /\ keep' = WhereOver(probs, thresholds[2], 1)
    /\ bounding_boxes' = WithScores(Rows(bounding_boxes, keep'), Rows(probs, keep'))
    /\ offsets' = FilteredOffsets(offsets, keep')
    /\ pc' = "stage2_nms"
    /\ UNCHANGED <<input_shape, image_shape, min_face_size, width, height, pyramid_vars,
                   img_boxes, probs, landmarks, result, net_calls, hist, nms_vars>>

\* keep = nms(bounding_boxes, self.nms_thresholds[1]);
\* bounding_boxes = bounding_boxes[keep]
Stage2Nms ==
    /\ pc = "stage2_nms"
    /\ keep' = nms(bounding_boxes, nms_thresholds[2], "union")
    /\ bounding_boxes' = Rows(bounding_boxes, keep')
    /\ pc' = "stage2_calibrate"
    /\ UNCHANGED <<input_shape, image_shape, min_face_size, width, height, pyramid_vars,
                   img_boxes, offsets, probs, landmarks, result, net_calls, hist, nms_vars>>

\* bounding_boxes = calibrate_box(bounding_boxes, offsets[keep]);
\* convert_to_square; np.round
Stage2Calibrate ==
    /\ pc = "stage2_calibrate"
    /\ bounding_boxes' =
          convert_to_square(calibrate_box(bounding_boxes, Rows(offsets, keep)))
    /\ pc' = "stage3_crops"
    /\ UNCHANGED <<input_shape, image_shape, min_face_size, width, height, pyramid_vars,
                   img_boxes, offsets, probs, landmarks, keep, result, net_calls, hist,
                   nms_vars>>

(* ------------------------------------------------------------------ *)
(* Stage 3: O-Net                                                      *)
(* ------------------------------------------------------------------ *)

\* img_boxes = get_image_boxes(bounding_boxes, image_pil, size=48);
\* if len(img_boxes) == 0: return [], []
Stage3Crops ==
    /\ pc = "stage3_crops"
    /\ bounding_boxes' = Numbered(bounding_boxes)
    /\ img_boxes' = get_image_boxes(bounding_boxes, height, width)
    /\ IF Len(img_boxes') = 0
       THEN /\ pc' = "done"
            /\ result' = [boxes |-> << >>, landmarks |-> << >>]
       ELSE /\ pc' = "stage3_net"
            /\ UNCHANGED result
    /\ UNCHANGED <<input_shape, image_shape, min_face_size, width, height, pyramid_vars,
                   offsets, probs, landmarks, keep, net_calls, hist, nms_vars>>

\* output = self.onet(img_boxes): landmarks, offsets and probs, a row per crop
Stage3Net ==
    /\ pc = "stage3_net"
    /\ \E out \in [1..Len(img_boxes) ->
                     [prob : ProbChoices(3), off : OffsetChoices, lm : LandmarkChoices]] :
          /\ landmarks' = [i \in 1..Len(img_boxes) |->
                              [pts |-> out[i].lm, raw |-> out[i].lm, src |-> img_boxes[i].src]]
          /\ offsets' = [i \in 1..Len(img_boxes) |->
                            [d |-> out[i].off, src |-> img_boxes[i].src]]
          /\ probs' = [i \in 1..Len(img_boxes) |->
                          [p |-> out[i].prob, src |-> img_boxes[i].src]]
    /\ net_calls' = [net_calls EXCEPT !.onet = @ + 1]
    /\ pc' = "stage3_filter"
    /\ UNCHANGED <<input_shape, image_shape, min_face_size, width, height, pyramid_vars,
                   bounding_boxes, img_boxes, keep, result, hist, nms_vars>>

\* keep = np.where(probs[:, 1] > self.thresholds[2])[0]; bounding_boxes =
\* bounding_boxes[keep]; bounding_boxes[:, 4] = probs[keep, 1];
\* offsets = offsets[keep]; landmarks = landmarks[keep]
Stage3Filter ==
    /\ pc = "stage3_filter"
    /\ keep' = WhereOver(probs, thresholds[3], 1)
    /\ bounding_boxes' = WithScores(Rows(bounding_boxes, keep'), Rows(probs, keep'))
    /\ offsets' = FilteredOffsets(offsets, keep')
    /\ landmarks' = Rows(landmarks, keep')
    /\ pc' = "stage3_landmarks"
    /\ UNCHANGED <<input_shape, image_shape, min_face_size, width, height, pyramid_vars,
                   img_boxes, probs, result, net_calls, hist, nms_vars>>

\* landmarks[:, 0:5] = xmin + width*landmarks[:, 0:5];
\* landmarks[:, 5:10] = ymin + height*landmarks[:, 5:10]
ReprojectOne(b, pts) ==
    [k \in 1..10 |->
        IF k <= 5 THEN b.x1 + (b.x2 - b.x1 + 1) * pts[k]
        ELSE b.y1 + (b.y2 - b.y1 + 1) * pts[k]]

\* the boxes after calibrate_box
CalibratedGeometry(bboxes, offs) == calibrate_box(bboxes, offs)

\* the boxes whose xmin, ymin, width and height the landmarks are computed
\* from: bounding_boxes as it is before calibrate_box is called
LandmarkGeometry(bboxes, offs) == bboxes

Stage3Landmarks ==
    /\ pc = "stage3_landmarks"
    /\ landmarks' =
          [i \in 1..Len(landmarks) |->
              [landmarks[i] EXCEPT
                  !.pts = ReprojectOne(LandmarkGeometry(bounding_boxes, offsets)[i], @)]]
    /\ hist' = [hist EXCEPT !.pre = bounding_boxes]
    /\ pc' = "stage3_calibrate"
    /\ UNCHANGED <<input_shape, image_shape, min_face_size, width, height, pyramid_vars,
                   bounding_boxes, img_boxes, offsets, probs, keep, result, net_calls,
                   nms_vars>>

\* bounding_boxes = calibrate_box(bounding_boxes, offsets)
Stage3Calibrate ==
    /\ pc = "stage3_calibrate"
    /\ bounding_boxes' = calibrate_box(bounding_boxes, offsets)
    /\ hist' = [hist EXCEPT !.cal = bounding_boxes']
    /\ pc' = "stage3_nms"
    /\ UNCHANGED <<input_shape, image_shape, min_face_size, width, height, pyramid_vars,
                   img_boxes, offsets, probs, landmarks, keep, result, net_calls, nms_vars>>

\* keep = nms(bounding_boxes, self.nms_thresholds[2], mode='min');
\* bounding_boxes = bounding_boxes[keep]; landmarks = landmarks[keep];
\* return bounding_boxes, landmarks
Stage3Nms ==
    /\ pc = "stage3_nms"
    /\ keep' = nms(bounding_boxes, nms_thresholds[3], "min")
    /\ bounding_boxes' = Rows(bounding_boxes, keep')
    /\ landmarks' = Rows(landmarks, keep')
    /\ hist' = [hist EXCEPT !.lm = landmarks]
    /\ result' = [boxes |-> bounding_boxes', landmarks |-> landmarks']
    /\ pc' = "done"
    /\ UNCHANGED <<input_shape, image_shape, min_face_size, width, height, pyramid_vars,
                   img_boxes, offsets, probs, net_calls, nms_vars>>

Next ==
    \/ Forward \/ BuildScales \/ WhileScales
    \/ RunFirstStage \/ CollectBoxes \/ Stage1Nms \/ Stage1Calibrate
    \/ Stage2Net \/ Stage2Filter \/ Stage2Nms \/ Stage2Calibrate
    \/ Stage3Crops \/ Stage3Net \/ Stage3Filter \/ Stage3Landmarks
    \/ Stage3Calibrate \/ Stage3Nms

Spec == Init /\ [][Next]_vars

(* ------------------------------------------------------------------ *)
(* The scale pyramid alone, for every image side and min_face_size     *)
(* ------------------------------------------------------------------ *)

PyInit ==
    /\ \E w \in 0..MaxSide, h \in {MaxSide \div 2, MaxSide} :
          input_shape = <<1, Channels, w, h>>
    /\ min_face_size \in 1..MaxFaceSize
    /\ InitRun
    /\ nms_boxes = << >> /\ nms_picks = << >> /\ nms_repicks = << >>

PyNext == Forward \/ BuildScales \/ WhileScales

PySpec == PyInit /\ [][PyNext]_vars

(* ------------------------------------------------------------------ *)
(* nms alone, on arrays of scored boxes                                *)
(* ------------------------------------------------------------------ *)

\* boxes one pixel high over the columns 0..4: the middle column, the whole
\* strip, its two ends, and the strip without its last column
NmsSpans == {<<2, 2>>, <<0, 4>>, <<0, 1>>, <<3, 4>>, <<0, 3>>}
NmsScores == {8, 9}
NmsBoxChoices ==
    {[x1 |-> sp[1], y1 |-> 0, x2 |-> sp[2], y2 |-> 0, score |-> sc] :
        sp \in NmsSpans, sc \in NmsScores}
\* overlap thresholds, in tenths
NmsThresholds == {1, 3, 7}
NmsModes == {"union", "min"}

NmsInit ==
    /\ pc = "nms_input"
    /\ nms_boxes \in UNION {[1..n -> NmsBoxChoices] : n \in 0..MaxBoxes}
    /\ nms_picks = << >> /\ nms_repicks = << >>
    /\ input_shape = << >> /\ image_shape = << >>
    /\ min_face_size = DefaultMinFaceSize
    /\ width = 0 /\ height = 0
    /\ m = NoFrac /\ min_length = NoFrac /\ factor_count = 0 /\ scales = << >>
    /\ bounding_boxes = << >> /\ img_boxes = << >>
    /\ offsets = << >> /\ probs = << >> /\ landmarks = << >>
    /\ keep = << >> /\ result = << >>
    /\ net_calls = NoCalls /\ hist = NoHist

\* keep = nms(boxes, t, mode), for every mode and threshold
NmsRun ==
    /\ pc = "nms_input"
    /\ nms_picks' = [x \in NmsModes \X NmsThresholds |-> nms(nms_boxes, x[2], x[1])]
    /\ pc' = "nms_picked"
    /\ UNCHANGED <<nms_boxes, nms_repicks, input_shape, image_shape, min_face_size, width,
                   height, pyramid_vars, stage_vars>>

\* nms again, on boxes[keep], with the same threshold and mode
NmsRerun ==
    /\ pc = "nms_picked"
    /\ nms_repicks' = [x \in NmsModes \X NmsThresholds |->
                          nms(Rows(nms_boxes, nms_picks[x]), x[2], x[1])]
    /\ pc' = "nms_repicked"
    /\ UNCHANGED <<nms_boxes, nms_picks, input_shape, image_shape, min_face_size, width,
                   height, pyramid_vars, stage_vars>>

NmsNext == NmsRun \/ NmsRerun

NmsSpec == NmsInit /\ [][NmsNext]_vars

(* ------------------------------------------------------------------ *)
(* Properties                                                          *)
(* ------------------------------------------------------------------ *)

EmptyResult == [boxes |-> << >>, landmarks |-> << >>]
InputWidth == input_shape[Len(input_shape) - 1]
InputHeight == input_shape[Len(input_shape)]
BeforeStages == {"forward", "scales", "while"}

\* C1: when the candidate set is empty after the filtering of a stage, the
\* run ends normally with an empty result, never in an error.  Stage 1: no
\* grid cell of any scale passed thresholds[0] (every scale gave None);
\* stages 2 and 3: no crop passed, so the run returns with nothing kept.
C1_EmptyCandidatesEndNormally ==
    /\ ~(pc = "ValueError" /\ Len(scales) > 0)
    /\ (pc = "done" /\ (img_boxes = << >> \/ hist.cal = << >>)) => result = EmptyResult

\* C2: with an empty scale pyramid the run returns empty results at once:
\* no network is called and the run does not end in an error.
C2_EmptyPyramidReturnsEmpty ==
    (pc \notin BeforeStages \cup {"AssertionError"} /\ scales = << >>)
        => /\ pc \in {"first_stage", "done"}
           /\ net_calls = NoCalls
           /\ (pc = "done" => result = EmptyResult)

\* C3 as claimed: after every threshold filter and every NMS step the
\* boxes, the offsets and (stage 3) the landmarks have the same length.
\* (The stage-1 rows hold box, score and offsets in one array.)
C3_EqualLengthsEverywhere ==
    /\ pc \in {"stage2_nms", "stage2_calibrate"} => Len(bounding_boxes) = Len(offsets)
    /\ pc = "stage3_landmarks" =>
          /\ Len(bounding_boxes) = Len(offsets)
          /\ Len(bounding_boxes) = Len(landmarks)
    /\ (pc = "done" /\ net_calls.onet > 0) =>
          /\ Len(bounding_boxes) = Len(offsets)
          /\ Len(bounding_boxes) = Len(landmarks)

\* C3 as amended: the lengths agree after every threshold filter.  An NMS
\* step filters the boxes and, by the same indices, what is used with them
\* next (offsets[keep], the argument of calibrate_box, in stage 2; the
\* landmarks in stage 3), but not the offsets array, which keeps the
\* length it had before the NMS.
C3_EqualLengths ==
    /\ pc = "stage2_nms" => Len(bounding_boxes) = Len(offsets)
    /\ pc = "stage2_calibrate" =>
          /\ Len(bounding_boxes) = Len(keep)
          /\ \A i \in 1..Len(keep) : keep[i] \in 1..Len(offsets)
          /\ Len(Rows(offsets, keep)) = Len(bounding_boxes)
    /\ pc \in {"stage3_landmarks", "stage3_calibrate", "stage3_nms"} =>
          /\ Len(bounding_boxes) = Len(offsets)
          /\ Len(bounding_boxes) = Len(landmarks)
    /\ (pc = "done" /\ net_calls.onet > 0) =>
          /\ Len(bounding_boxes) = Len(landmarks)
          /\ Len(result.boxes) = Len(result.landmarks)
          /\ Len(offsets) = Len(hist.cal)

\* a run whose stage-3 crop extraction skipped a degenerate box returned a
\* box and a landmark
C3_Witness ==
    /\ pc = "done" /\ net_calls.onet > 0
    /\ Len(result.boxes) >= 1
    /\ \E i \in 1..Len(img_boxes) : img_boxes[i].src # i

\* C4: the score, the offsets and the landmark at a box's index are those
\* the network gave for the crop cut from that box (id: the box's index
\* when the crops were cut; src: the box a network row was computed for).
C4_OutputsBelongToTheirBox ==
    /\ pc = "stage2_nms" =>
          \A i \in 1..Len(bounding_boxes) :
              /\ bounding_boxes[i].score_src = bounding_boxes[i].id
              /\ offsets[i].src = bounding_boxes[i].id
    /\ pc = "stage2_calibrate" =>
          \A i \in 1..Len(bounding_boxes) :
              /\ bounding_boxes[i].score_src = bounding_boxes[i].id
              /\ offsets[keep[i]].src = bounding_boxes[i].id
    /\ pc \in {"stage3_landmarks", "stage3_calibrate", "stage3_nms"} =>
          \A i \in 1..Len(bounding_boxes) :
              /\ bounding_boxes[i].score_src = bounding_boxes[i].id
              /\ offsets[i].src = bounding_boxes[i].id
              /\ landmarks[i].src = bounding_boxes[i].id
    /\ (pc = "done" /\ net_calls.onet > 0) =>
          \A i \in 1..Len(result.boxes) :
              /\ result.boxes[i].score_src = result.boxes[i].id
              /\ result.landmarks[i].src = result.boxes[i].id

\* C5: a batch of zero or of several images fails at the assertion, before
\* the pyramid is built and before any network is called; a 3-dimensional
\* image becomes a batch of one and is accepted.
C5_BatchOfOne ==
    /\ (Len(input_shape) = 4 /\ input_shape[1] # 1) =>
          /\ pc \in {"forward", "AssertionError"}
          /\ scales = << >> /\ min_length = NoFrac /\ factor_count = 0
          /\ net_calls = NoCalls
          /\ result = << >>
    /\ (Len(input_shape) = 3 /\ pc # "forward") =>
          /\ image_shape = <<1>> \o input_shape
          /\ pc # "AssertionError"

\* a batch of two images was refused
C5_Witness == pc = "AssertionError" /\ Len(input_shape) = 4 /\ input_shape[1] = 2

\* C6: an image of zero (or negative) width or height is rejected before
\* the pyramid construction: the run never gets past the entry of forward
\* into the computation of m, min_length and the scales.
C6_ZeroSizeRejected ==
    (InputWidth <= 0 \/ InputHeight <= 0) =>
        pc \in {"forward", "scales", "AssertionError", "InvalidInput"}

\* scale k is to be emitted: min_dimension * m * factor^k > 12, that is
\* min_dimension * 707^k > min_face_size * 1000^k
Emitted(k) ==
    BigLess(BigMul(BigFromInt(min_face_size), BigPow(FactorDen, k)),
            BigMul(BigFromInt(Min(height, width)), BigPow(FactorNum, k)))

\* m * factor^k = 12 * 707^k / (min_face_size * 1000^k)
ClosedFormScale(k) ==
    Frac(BigMul(BigFromInt(MinDetectionSize), BigPow(FactorNum, k)),
         BigMul(BigFromInt(min_face_size), BigPow(FactorDen, k)))

\* an index by which min_dimension * m * factor^k has fallen to 12 or below
StopCap == 2 * Min(height, width) + 1

\* the first k that is not to be emitted
FirstStop ==
    CHOOSE n \in 0..StopCap : ~Emitted(n) /\ \A j \in 0..(n - 1) : Emitted(j)

\* C7: the pyramid loop terminates (it never runs more often than the first
\* k with min_dimension*m*factor^k <= 12, and stops there), and the scales
\* are m*factor^k for k = 0..n-1, strictly decreasing without duplicates,
\* scale k being emitted exactly when min_dimension*m*factor^k > 12; so
\* every emitted scale s has min_dimension * s > 12.
C7_ScalePyramid ==
    pc \in {"while", "first_stage"} =>
        /\ factor_count = Len(scales)
        /\ \E n \in 0..StopCap : ~Emitted(n)
        /\ Len(scales) <= FirstStop
        /\ pc = "first_stage" => Len(scales) = FirstStop
        /\ \A k \in 1..Len(scales) :
              /\ FracEq(scales[k], ClosedFormScale(k - 1))
              /\ Emitted(k - 1)
              /\ FracLess(FracOfInt(MinDetectionSize),
                          FracMul(FracOfInt(Min(height, width)), scales[k]))
        /\ \A k \in 1..(Len(scales) - 1) : FracLess(scales[k + 1], scales[k])
        /\ \A j, k \in 1..Len(scales) : j # k => ~FracEq(scales[j], scales[k])
        /\ pc = "first_stage" =>
              \A k \in Len(scales)..(Len(scales) + 2) : ~Emitted(k)

\* a pyramid of at least three scales was built
C7_Witness == pc = "first_stage" /\ Len(scales) >= 3 /\ Min(height, width) > 0

\* the number of boxes kept never falls as the threshold rises
Monotone ==
    \A mode \in NmsModes : \A t1, t2 \in NmsThresholds :
        t1 <= t2 => Len(nms_picks[<<mode, t1>>]) <= Len(nms_picks[<<mode, t2>>])

\* C8 as claimed: for every set of scored boxes and each mode, nms keeps at
\* most as many boxes at threshold t1 as at any threshold t2 >= t1.
C8_MonotoneInThreshold == pc \in {"nms_picked", "nms_repicked"} => Monotone

\* C8 as amended: the same, for sets of at most three boxes.
C8_MonotoneUpToThreeBoxes ==
    (pc \in {"nms_picked", "nms_repicked"} /\ Len(nms_boxes) <= 3) => Monotone

\* three boxes of which a higher threshold keeps more
C8_Witness ==
    /\ pc = "nms_picked" /\ Len(nms_boxes) = 3
    /\ \E mode \in NmsModes : \E t1, t2 \in NmsThresholds :
          /\ t1 < t2
          /\ Len(nms_picks[<<mode, t1>>]) = 1
          /\ Len(nms_picks[<<mode, t2>>]) = 3

\* C9: nms on the boxes a first nms kept, with the same threshold and mode,
\* keeps all of them.
C9_Idempotent ==
    pc = "nms_repicked" =>
        \A x \in NmsModes \X NmsThresholds : Len(nms_repicks[x]) = Len(nms_picks[x])

\* a first run that dropped a box and kept several, two of them with the
\* same score, was run again
C9_Witness ==
    /\ pc = "nms_repicked"
    /\ \E x \in NmsModes \X NmsThresholds :
          /\ Len(nms_picks[x]) < Len(nms_boxes)
          /\ Len(nms_picks[x]) >= 2
          /\ nms_boxes[nms_picks[x][1]].score = nms_boxes[nms_picks[x][2]].score

\* C10: stage 3 filters, reprojects the landmarks, calibrates the boxes and
\* runs the final NMS in mode "min", in this order: every landmark is
\* computed from the geometry its box had before calibrate_box, the final
\* NMS selects on the calibrated boxes, and its indices are applied to the
\* boxes and to the landmarks alike.
C10_LandmarksBeforeCalibration ==
    (pc = "done" /\ net_calls.onet > 0) =>
        /\ Len(hist.pre) = Len(offsets)
        /\ Len(hist.cal) = Len(offsets)
        /\ Len(hist.lm) = Len(offsets)
        /\ \A i \in 1..Len(hist.pre) :
              /\ hist.lm[i].pts = ReprojectOne(hist.pre[i], hist.lm[i].raw)
              /\ hist.cal[i] = CalibrateOne(hist.pre[i], offsets[i].d)
        /\ keep = nms(hist.cal, nms_thresholds[3], "min")
        /\ result.boxes = Rows(hist.cal, keep)
        /\ result.landmarks = Rows(hist.lm, keep)

\* a returned box that its stage-3 offsets moved
C10_Witness ==
    /\ pc = "done" /\ net_calls.onet > 0
    /\ \E i \in 1..Len(keep) :
          /\ offsets[keep[i]].d # <<0, 0, 0, 0>>
          /\ result.boxes[i] # hist.pre[keep[i]]

====
